---- MODULE Spec2Model ----
(***************************************************************************)
(* ra_env: get_path_for_executable (crates/ra_env/src/lib.rs).             *)
(*                                                                         *)
(* One call of get_path_for_executable is modelled as a state machine.     *)
(* Strings (str, String, OsString, PathBuf) are sequences of one-character *)
(* tokens.  The token "U+00E9" stands for a non-ASCII lowercase letter and *)
(* the token "0xFF" for a byte that is not valid Unicode.  The process     *)
(* environment, the home directory and the behaviour of the operating      *)
(* system on <candidate> --version are   chosen in Init and do not change  *)
(* during the call.                                                        *)
(***************************************************************************)
EXTENDS Naturals, Sequences, FiniteSets

VARIABLES
    executable_name,  \* the argument of the call (line 24)
    environ,          \* the process environment: variable name -> OsString value
    home,             \* what ::home::home_dir() returns: None or Some(path)
    os,               \* what the OS does with <program> --version
    pc,               \* position of the call
    env_var,          \* local env_var (line 25)
    path,             \* local path (line 26, resp. line 39)
    child,            \* the child process of the pending Command::output()
    spawned,          \* every Command handed to the OS, in order
    env_reads,        \* every variable name handed to env::var, in order
    checks,           \* every returned is_valid_executable call, in order
    result            \* the value the call returns

vars == <<executable_name, environ, home, os, pc, env_var, path, child,
          spawned, env_reads, checks, result>>

\* Longest executable name explored.
MaxLen == 2

----------------------------------------------------------------------------
\* Values

None == [tag |-> "None"]
Some(v) == [tag |-> "Some", val |-> v]
Ok(v) == [tag |-> "Ok", val |-> v]
Err(f, a) == [tag |-> "Err", fmt |-> f, args |-> a]

Alphabet == {"a", "B", "-", "/", "U+00E9"}

Names == UNION {[1..n -> Alphabet] : n \in 1..MaxLen}

\* (ch as u8).to_ascii_uppercase(): only a..z change.
ascii_uppercase_char(ch) ==
    CASE ch = "a" -> "A" [] ch = "b" -> "B" [] ch = "c" -> "C"
      [] ch = "g" -> "G" [] ch = "i" -> "I" [] ch = "n" -> "N"
      [] ch = "o" -> "O" [] ch = "r" -> "R" [] ch = "x" -> "X"
      [] OTHER -> ch

\* A bug variant: the cargo convention for variable names, '-' becomes '_'.
to_ascii_uppercase_underscore(s) ==
    [i \in 1..Len(s) |-> IF s[i] = "-" THEN "_" ELSE ascii_uppercase_char(s[i])]

\* str::to_ascii_uppercase (line 25)
to_ascii_uppercase(s) == [i \in 1..Len(s) |-> ascii_uppercase_char(s[i])]

\* String::from_utf8 succeeds on the value
IsUnicode(s) == \A i \in 1..Len(s) : s[i] # "0xFF"

\* A bug variant: env::var_os semantics, any present value is taken.
var_os(key) ==
    IF key \in DOMAIN environ THEN Ok(environ[key]) ELSE Err("NotPresent", <<>>)

\* env::var(&env_var) (line 26)
var(key) ==
    IF key \notin DOMAIN environ THEN Err("NotPresent", <<>>)
    ELSE IF IsUnicode(environ[key]) THEN Ok(environ[key])
    ELSE Err("NotUnicode", <<environ[key]>>)

IsSep(ch) == ch = "/"
IsAbsolute(p) == Len(p) > 0 /\ IsSep(p[1])

\* PathBuf::push on Unix (lines 40-42): an absolute component replaces the
\* path, otherwise a separator is added unless the path already ends in one.
push(p, comp) ==
    IF IsAbsolute(comp) THEN comp
    ELSE IF Len(p) > 0 /\ ~IsSep(p[Len(p)]) THEN p \o <<"/">> \o comp
    ELSE p \o comp

DotCargo == <<".", "c", "a", "r", "g", "o">>
Bin == <<"b", "i", "n">>

\* A bug variant: the two directories pushed in the wrong order.
fallback_path_swapped(h, name) == push(push(push(h, Bin), DotCargo), name)

\* lines 39-42: home, then ".cargo", "bin", executable_name
fallback_path(h, name) == push(push(push(h, DotCargo), Bin), name)

----------------------------------------------------------------------------
\* The world the call runs in

Outcomes == {"NoLaunch", "Exit0", "ExitFail", "Hang"}

\* What the OS does with <p> --version; a path the world does not hold
\* cannot be launched.
Outcome(p) == IF p \in DOMAIN os THEN os[p] ELSE "NoLaunch"

\* The child was started and ran to completion.
Completes(p) == Outcome(p) \in {"Exit0", "ExitFail"}

\* The file <home>/.cargo/bin/<name> of the file system.
HomeCargoBin(h, name) ==
    IF IsAbsolute(name) THEN name
    ELSE h \o (IF IsSep(h[Len(h)]) THEN <<>> ELSE <<"/">>)
           \o <<".", "c", "a", "r", "g", "o", "/", "b", "i", "n", "/">> \o name

Homes == {None, Some(<<"/", "h">>), Some(<<"/">>)}

\* Values the override variable may hold: empty, a bare name, a relative
\* path, the executable's own name, and a value that is not valid Unicode.
OverrideValues(name) ==
    {<<>>, <<"x">>, <<"d", "/", "x">>, name, <<"/", "0xFF">>}

Environments(name) ==
    {<<>>} \cup {[k \in {to_ascii_uppercase(name)} |-> v] : v \in OverrideValues(name)}

Range(f) == {f[k] : k \in DOMAIN f}

WorldPaths(name, e, h) ==
    {name} \cup Range(e)
           \cup (IF h.tag = "Some" THEN {HomeCargoBin(h.val, name)} ELSE {})

Init ==
    /\ executable_name \in Names
    /\ environ \in Environments(executable_name)
    /\ home \in Homes
    /\ os \in [WorldPaths(executable_name, environ, home) -> Outcomes]
    /\ \A p \in DOMAIN os : p = <<>> => os[p] = "NoLaunch"
    /\ pc = "start"
    /\ env_var = <<>>
    /\ path = <<>>
    /\ child = "none"
    /\ spawned = <<>>
    /\ env_reads = <<>>
    /\ checks = <<>>
    /\ result = None

----------------------------------------------------------------------------
\* is_valid_executable (lines 64-66)

\* Command::new(p).arg("--version").output(), once it has returned
output(p) ==
    IF Outcome(p) = "NoLaunch" THEN [tag |-> "Err"]
    ELSE [tag |-> "Ok", success |-> (Outcome(p) = "Exit0")]

\* A bug variant: the exit status is looked at.
is_valid_executable_status(p) == output(p).tag = "Ok" /\ output(p).success

\* line 65: .output().is_ok()
is_valid_executable(p) == output(p).tag = "Ok"

----------------------------------------------------------------------------
\* get_path_for_executable (lines 15-58)

\* The two format strings (lines 31 and 54), without the source text's
\* backquotes and dollar signs.
BrokenOverrideFmt ==
    "{} environment variable points to something that's not a valid executable"
NotFoundFmt ==
    "Failed to find {} executable. Make sure {} is in PATH, or set {} to point to a valid executable."

\* lines 30-33
broken_override_error(ev) == Err(BrokenOverrideFmt, <<ev>>)

\* A bug variant: the variable name left out of the message.
not_found_error_no_var(name, ev) == Err(NotFoundFmt, <<name, name>>)

\* lines 53-56
not_found_error(name, ev) == Err(NotFoundFmt, <<name, name, ev>>)

\* A bug variant: the bare name resolved to an absolute path before returning.
bare_name_ok_expanded(name) == Ok(<<"/", "b", "i", "n", "/">> \o name)

\* line 37
bare_name_ok(name) == Ok(name)

\* A bug variant: the executable name returned where the override value is meant.
override_ok_name(p, name) == Ok(name)

\* line 28
override_ok(p, name) == Ok(p)

\* The argument of the is_valid_executable call at the current position.
Candidate == IF pc = "bare" THEN executable_name ELSE path

\* lines 24-26: derive the variable name, read the variable, branch
ReadOverride ==
    /\ pc = "start"
    /\ env_var' = to_ascii_uppercase(executable_name)
    /\ env_reads' = Append(env_reads, env_var')
    /\ IF var(env_var').tag = "Ok"
          THEN /\ path' = var(env_var').val
               /\ pc' = "override"
          ELSE /\ path' = path
               /\ pc' = "bare"
    /\ UNCHANGED <<executable_name, environ, home, os, child, spawned, checks, result>>

\* What the caller does once is_valid_executable has returned v
\* (lines 27-34, 36-38, 43-56).
Returned(v) ==
    /\ checks' = Append(checks, [site |-> pc, p |-> Candidate, ok |-> v])
    /\ CASE pc = "override" ->
              /\ result' = IF v THEN override_ok(path, executable_name)
                                ELSE broken_override_error(env_var)
              /\ pc' = "done"
         [] pc = "bare" ->
              IF v THEN /\ result' = bare_name_ok(executable_name)
                        /\ pc' = "done"
                   ELSE /\ result' = result
                        /\ pc' = "home"
         [] pc = "fallback" ->
              /\ result' = IF v THEN Ok(path)
                                ELSE not_found_error(executable_name, env_var)
              /\ pc' = "done"

\* line 65, first half: the Command is handed to the OS.  A launch failure
\* makes output() return at once; otherwise the caller blocks on the child.
Spawn ==
    /\ pc \in {"override", "bare", "fallback"}
    /\ child = "none"
    /\ spawned' = Append(spawned, [program |-> Candidate, args |-> <<"--version">>])
    /\ IF Outcome(Candidate) = "NoLaunch"
          THEN /\ child' = "none"
               /\ Returned(is_valid_executable(Candidate))
          ELSE /\ child' = "running"
               /\ UNCHANGED <<pc, checks, result>>
    /\ UNCHANGED <<executable_name, environ, home, os, env_var, path, env_reads>>

\* line 65, second half: the child ran to completion and output() returns.
\* A child that hangs never lets the call go on.
ChildExit ==
    /\ child = "running"
    /\ Completes(Candidate)
    /\ child' = "none"
    /\ Returned(is_valid_executable(Candidate))
    /\ UNCHANGED <<executable_name, environ, home, os, env_var, path, spawned, env_reads>>

\* A bug variant: a default home directory is used when none is known.
HomeDirDefault ==
    /\ pc = "home"
    /\ path' = fallback_path(IF home.tag = "Some" THEN home.val ELSE <<"/">>,
                             executable_name)
    /\ pc' = "fallback"
    /\ UNCHANGED <<executable_name, environ, home, os, env_var, child, spawned,
                   env_reads, checks, result>>

\* lines 39-42 and, when there is no home directory, lines 53-56
HomeDir ==
    /\ pc = "home"
    /\ IF home.tag = "Some"
          THEN /\ path' = fallback_path(home.val, executable_name)
               /\ pc' = "fallback"
               /\ result' = result
          ELSE /\ path' = path
               /\ pc' = "done"
               /\ result' = not_found_error(executable_name, env_var)
    /\ UNCHANGED <<executable_name, environ, home, os, env_var, child, spawned,
                   env_reads, checks>>

Next == ReadOverride \/ Spawn \/ ChildExit \/ HomeDir

Spec == Init /\ [][Next]_vars

----------------------------------------------------------------------------
\* Properties

\* The override variable of the call's executable name.
Key == to_ascii_uppercase(executable_name)
OverridePresent == Key \in DOMAIN environ
Done == pc = "done"
NoLaunch(p) == Outcome(p) = "NoLaunch"
Sites == {checks[i].site : i \in 1..Len(checks)}
TookOverrideBranch ==
    pc = "override" \/ (Len(checks) > 0 /\ checks[1].site = "override")
IsNotFoundError(r) ==
    /\ r.tag = "Err"
    /\ r.fmt = NotFoundFmt
    /\ executable_name \in Range(r.args)
    /\ Key \in Range(r.args)
IsBrokenOverrideError(r) ==
    /\ r.tag = "Err"
    /\ r.fmt = BrokenOverrideFmt
    /\ Key \in Range(r.args)

\* C1: whenever the override variable is set and its value validates, the
\* call returns exactly that value.
OverrideSetAndValid_ReturnsValue ==
    (Done /\ OverridePresent /\ Completes(environ[Key]))
        => result = Ok(environ[Key])

\* C1, the part the code satisfies: a valid override whose value is valid
\* Unicode is returned verbatim, whatever the other candidates would do.
UnicodeOverrideValid_ReturnsValue ==
    (Done /\ OverridePresent /\ IsUnicode(environ[Key]) /\ Completes(environ[Key]))
        => result = Ok(environ[Key])

\* C2: whenever the override variable is set and its value fails validation,
\* the call fails with the error naming the variable, after exactly one
\* validation attempt, which is the one of the override value.
OverrideSetAndInvalid_FailsAtOnce ==
    (Done /\ OverridePresent /\ NoLaunch(environ[Key]))
        => /\ IsBrokenOverrideError(result)
           /\ Len(spawned) = 1
           /\ Sites = {"override"}

\* C2, the part the code satisfies: the same for a value that is valid Unicode.
UnicodeOverrideInvalid_FailsAtOnce ==
    (Done /\ OverridePresent /\ IsUnicode(environ[Key]) /\ NoLaunch(environ[Key]))
        => /\ IsBrokenOverrideError(result)
           /\ Len(spawned) = 1
           /\ Sites = {"override"}

\* C3: with no override variable and a bare name that validates, the call
\* returns the bare name unchanged and the only child ever spawned is the
\* bare name's; and no fallback validation happens before the bare name has
\* been tried and has failed.
BareNameFirst ==
    /\ (~OverridePresent /\ Completes(executable_name))
          => /\ Len(spawned) <= 1
             /\ \A i \in 1..Len(spawned) : spawned[i].program = executable_name
             /\ "fallback" \notin Sites
             /\ pc \notin {"home", "fallback"}
             /\ Done => result = Ok(executable_name)
    /\ (pc = "fallback" \/ "fallback" \in Sites)
          => /\ Len(checks) >= 1
             /\ checks[1] = [site |-> "bare", p |-> executable_name, ok |-> FALSE]
             /\ spawned[1].program = executable_name

C3_Witness ==
    /\ Done /\ ~OverridePresent /\ Completes(executable_name)
    /\ home.tag = "Some" /\ Completes(HomeCargoBin(home.val, executable_name))
    /\ ~IsAbsolute(executable_name)
    /\ result = Ok(executable_name)

\* C4: with no override variable, a bare name that fails validation and a
\* <home>/.cargo/bin/<name> that validates, the call returns that path.
FallbackReturnsHomeCargoBin ==
    (/\ Done /\ ~OverridePresent /\ NoLaunch(executable_name)
     /\ home.tag = "Some" /\ Completes(HomeCargoBin(home.val, executable_name)))
        => result = Ok(HomeCargoBin(home.val, executable_name))

C4_Witness ==
    /\ Done /\ ~OverridePresent /\ NoLaunch(executable_name)
    /\ home = Some(<<"/", "h">>)
    /\ executable_name = <<"a", "B">>
    /\ result = Ok(<<"/", "h", "/", ".", "c", "a", "r", "g", "o", "/",
                     "b", "i", "n", "/", "a", "B">>)
    /\ Len(spawned) = 2

\* C5: with no override variable and neither the bare name nor the fallback
\* path validating, the call fails with the not-found error, which holds the
\* executable name and the variable name; that error comes only from the
\* branch taken when reading the variable gave nothing, and is another error
\* than the broken-override one.
NotFoundErrorOnlyWithoutOverride ==
    /\ (/\ Done /\ ~OverridePresent /\ NoLaunch(executable_name)
        /\ (home.tag = "Some" => NoLaunch(HomeCargoBin(home.val, executable_name))))
          => IsNotFoundError(result)
    /\ (result.tag = "Err" /\ result.fmt = NotFoundFmt)
          => /\ var(Key).tag = "Err"
             /\ "override" \notin Sites
             /\ ~IsBrokenOverrideError(result)
    /\ NotFoundFmt # BrokenOverrideFmt

C5_Witness ==
    /\ Done /\ ~OverridePresent /\ NoLaunch(executable_name)
    /\ home.tag = "Some" /\ NoLaunch(HomeCargoBin(home.val, executable_name))
    /\ Len(spawned) = 2
    /\ IsNotFoundError(result)

\* C6: the variable read is the executable name with every ASCII lowercase
\* letter replaced by its uppercase letter and every other character left as
\* it is (same length); it is the only variable read; uppercasing it again
\* changes nothing.
OverrideVarIsUppercasedName ==
    pc # "start"
        => /\ Len(env_var) = Len(executable_name)
           /\ \A i \in 1..Len(executable_name) :
                 IF executable_name[i] = "a" THEN env_var[i] = "A"
                 ELSE env_var[i] = executable_name[i]
           /\ env_reads = <<env_var>>
           /\ to_ascii_uppercase(env_var) = env_var

C6_Witness ==
    /\ pc # "start"
    /\ executable_name = <<"a", "-">>
    /\ env_reads = <<(<<"A", "-">>)>>

\* C7: is_valid_executable returns TRUE exactly when the child was started
\* and ran to completion, whatever its exit status; each validation attempt
\* hands exactly one Command, <candidate> --version, to the OS.
ValidIffLaunchedAndCompleted ==
    /\ \A i \in 1..Len(checks) :
          /\ checks[i].ok = Completes(checks[i].p)
          /\ spawned[i] = [program |-> checks[i].p, args |-> <<"--version">>]
    /\ Len(spawned) = Len(checks) + (IF child = "running" THEN 1 ELSE 0)
    /\ child = "running" => spawned[Len(spawned)].program = Candidate

C7_Witness ==
    \E i \in 1..Len(checks) :
        /\ Outcome(checks[i].p) = "ExitFail"
        /\ checks[i].ok
        /\ Done /\ result = Ok(checks[i].p)

\* C8: a returned path is the candidate of the last validation of the call,
\* which succeeded, and is one of the three candidates; when no validation
\* succeeded the call returns an error.
SuccessIsLastValidatedCandidate ==
    Done =>
        IF result.tag = "Ok"
        THEN /\ Len(checks) >= 1
             /\ checks[Len(checks)].ok
             /\ checks[Len(checks)].p = result.val
             /\ Completes(result.val)
             /\ \A i \in 1..(Len(checks) - 1) : ~checks[i].ok
             /\ \/ OverridePresent /\ result.val = environ[Key]
                \/ result.val = executable_name
                \/ home.tag = "Some"
                     /\ result.val = HomeCargoBin(home.val, executable_name)
        ELSE /\ result.tag = "Err"
             /\ \A i \in 1..Len(checks) : ~checks[i].ok

C8_Witness ==
    /\ Done /\ result.tag = "Ok" /\ Len(checks) = 2
    /\ ~OverridePresent /\ ~IsAbsolute(executable_name)
    /\ result.val = HomeCargoBin(home.val, executable_name)
    /\ ~checks[1].ok /\ checks[2].ok

\* C9: with no override variable, a bare name that fails validation and no
\* home directory, only the bare name is ever validated and the call fails
\* with the not-found error.
NoHomeSkipsFallback ==
    (~OverridePresent /\ NoLaunch(executable_name) /\ home = None)
        => /\ Len(spawned) <= 1
           /\ pc # "fallback"
           /\ Sites \subseteq {"bare"}
           /\ Done => (IsNotFoundError(result) /\ Len(spawned) = 1)

C9_Witness ==
    /\ Done /\ ~OverridePresent /\ NoLaunch(executable_name) /\ home = None
    /\ IsNotFoundError(result)
    /\ Len(checks) = 1

====
